---- MODULE Spec2Model ----
(***************************************************************************)
(* Model of supriya_music: the configuration loader that runs when         *)
(* supriya_music/config.py is imported, followed by one call of            *)
(* hello(explain) from supriya_music/hello.py.                             *)
(*                                                                         *)
(* Python values are records [type, items]; a dict carries its items as a  *)
(* function from keys to values.  Calls into the supriya client library    *)
(* are steps whose outcome (return or raise) is chosen by the environment; *)
(* every call and its outcome is appended to `trace`.                      *)
(***************************************************************************)
EXTENDS Integers, Sequences, FiniteSets, TLC

(* ------------------------------------------------------------------ *)
(* Program constants                                                    *)
(* ------------------------------------------------------------------ *)
NumNotes == 3
BaseFreq == 220
AmplitudeMilli == 100
SleepSeconds == 1

DefaultPath == "<cwd>/supriya.config.yaml"
EnvPath == "/srv/alt.yaml"

(* ------------------------------------------------------------------ *)
(* Python values                                                        *)
(* ------------------------------------------------------------------ *)
NoItems == <<>>
Unbound == [type |-> "<unbound>", items |-> NoItems]
PyNone == [type |-> "NoneType", items |-> NoItems]
PyStr == [type |-> "str", items |-> NoItems]
PyList == [type |-> "list", items |-> NoItems]
PyTrue == [type |-> "bool", items |-> NoItems]
PyInt == [type |-> "int", items |-> NoItems]
Dict(kv) == [type |-> "dict", items |-> kv]
EmptyDict == Dict(NoItems)

IsDict(v) == v.type = "dict"

Truthy(v) ==
    CASE v.type = "NoneType" -> FALSE
      [] v.type = "dict" -> DOMAIN v.items # {}
      [] OTHER -> TRUE

\* dict.get(key): the value, or None when the key is absent.
DictGet(d, key) == IF key \in DOMAIN d.items THEN d.items[key] ELSE PyNone

(* ------------------------------------------------------------------ *)
(* File system and YAML documents                                       *)
(* ------------------------------------------------------------------ *)
Absent == "<absent>"
Directory == "<dir>"

DocGarbage == "audio: {unclosed"
DocEmpty == ""
DocScalar == "hello"
DocList == "- a"
DocNoAudio == "midi: 1"
DocAudioEmpty == "audio: {}"
DocAudioGood == "audio: {sample_rate: 44100}"
DocAudioNoDevice == "audio: {output_device: nosuch}"
DocAudioBadKey == "audio: {invalid_option: true}"
DocAudioScalar == "audio: true"

Docs == {DocGarbage, DocEmpty, DocScalar, DocList, DocNoAudio, DocAudioEmpty,
         DocAudioGood, DocAudioNoDevice, DocAudioBadKey, DocAudioScalar}
Entries == {Absent, Directory} \cup Docs
Paths == {DefaultPath, EnvPath}

\* os.environ.get returns None when the variable is not set.
EnvNone == "<None>"
EnvValues == {EnvNone, "", EnvPath}

\* yaml.safe_load: the parsed value, or a YAMLError.
safe_load(text) ==
    CASE text = DocGarbage -> [raised |-> "YAMLError", value |-> Unbound]
      [] text = DocEmpty -> [raised |-> "none", value |-> PyNone]
      [] text = DocScalar -> [raised |-> "none", value |-> PyStr]
      [] text = DocList -> [raised |-> "none", value |-> PyList]
      [] text = DocNoAudio ->
           [raised |-> "none", value |-> Dict("midi" :> PyInt)]
      [] text = DocAudioEmpty ->
           [raised |-> "none", value |-> Dict("audio" :> EmptyDict)]
      [] text = DocAudioGood ->
           [raised |-> "none",
            value |-> Dict("audio" :> Dict("sample_rate" :> PyInt))]
      [] text = DocAudioNoDevice ->
           [raised |-> "none",
            value |-> Dict("audio" :> Dict("output_device" :> PyStr))]
      [] text = DocAudioBadKey ->
           [raised |-> "none",
            value |-> Dict("audio" :> Dict("invalid_option" :> PyTrue))]
      [] text = DocAudioScalar ->
           [raised |-> "none", value |-> Dict("audio" :> PyTrue)]

\* open(path, "r") followed by yaml.safe_load of the stream.
open_and_load(entry) ==
    CASE entry = Absent -> [raised |-> "FileNotFoundError", value |-> Unbound]
      [] entry = Directory -> [raised |-> "IsADirectoryError", value |-> Unbound]
      [] OTHER -> safe_load(entry)

\* os.path.exists: true of any existing entry, a directory included.
path_exists(fsys, p) == p \in DOMAIN fsys /\ fsys[p] # Absent

ExceptionTypes == {"FileNotFoundError", "IsADirectoryError", "YAMLError",
                   "AttributeError", "TypeError", "ServerCannotBoot",
                   "RuntimeError"}

CaughtOnlyFileNotFound(e) == e = "FileNotFoundError"

\* except (FileNotFoundError, Exception): every exception type matches.
Caught(e) == e = "FileNotFoundError" \/ e \in ExceptionTypes

(* ------------------------------------------------------------------ *)
(* State                                                                *)
(* ------------------------------------------------------------------ *)
VARIABLES
    fs,                   \* path -> entry
    SUPRIYA_CONFIG_PATH,  \* value of the environment variable
    explain,              \* hello's argument
    CONFIG_PATH,          \* module global of config.py
    CONFIG,               \* module global of config.py
    warnings,             \* paths named by logging.warning calls
    pc,                   \* position in the script
    exc,                  \* exception in flight ("none" when there is none)
    console,              \* messages printed by hello
    server,               \* "unbound", "offline", "online", "quit"
    options,              \* the supriya.Options built from CONFIG["audio"]
    simple_sine,          \* TRUE once the synthdef has been built
    submitted,            \* TRUE once add_synthdefs has returned
    synced,               \* TRUE once sync has returned
    group,                \* TRUE once the group exists
    synths,               \* sequence of [freq, amp, freed], index = node
    i,                    \* loop variable of the creation loop
    children,             \* the list being iterated by the free loop
    trace,                \* every library call made, in order
    exitStatus            \* process exit status, -1 while running

vars == <<fs, SUPRIYA_CONFIG_PATH, explain, CONFIG_PATH, CONFIG, warnings, pc,
          exc, console, server, options, simple_sine, submitted, synced, group,
          synths, i, children, trace, exitStatus>>

inputVars == <<fs, SUPRIYA_CONFIG_PATH, explain>>
configVars == <<CONFIG_PATH, CONFIG, warnings>>
serverVars == <<server, options, simple_sine, submitted, synced, group, synths,
                i, children>>

Ev(op, result, node, freq, amp, secs) ==
    [op |-> op, result |-> result, node |-> node, freq |-> freq, amp |-> amp,
     secs |-> secs]
Call(op, result) == Ev(op, result, 0, 0, 0, 0)
Sleep(secs) == Ev("sleep", "ok", 0, 0, 0, secs)

Init ==
    /\ fs \in [Paths -> Entries]
    /\ SUPRIYA_CONFIG_PATH \in EnvValues
    /\ explain \in BOOLEAN
    /\ CONFIG_PATH = "<unbound>"
    /\ CONFIG = Unbound
    /\ warnings = <<>>
    /\ pc = "resolve_path"
    /\ exc = "none"
    /\ console = <<>>
    /\ server = "unbound"
    /\ options = Unbound
    /\ simple_sine = FALSE
    /\ submitted = FALSE
    /\ synced = FALSE
    /\ group = FALSE
    /\ synths = <<>>
    /\ i = 0
    /\ children = <<>>
    /\ trace = <<>>
    /\ exitStatus = -1

(* ------------------------------------------------------------------ *)
(* config.py                                                            *)
(* ------------------------------------------------------------------ *)
ResolvedPath(env, fsys) ==
    IF env # EnvNone /\ env # "" /\ path_exists(fsys, env)
    THEN env
    ELSE DefaultPath

ResolveConfigPath ==
    /\ pc = "resolve_path"
    /\ CONFIG_PATH' = ResolvedPath(SUPRIYA_CONFIG_PATH, fs)
    /\ pc' = "load_config"
    /\ UNCHANGED <<inputVars, CONFIG, warnings, exc, console, serverVars,
                   trace, exitStatus>>

LoadConfig ==
    /\ pc = "load_config"
    /\ LET r == open_and_load(fs[CONFIG_PATH]) IN
         IF r.raised = "none"
         THEN /\ CONFIG' = r.value
              /\ pc' = "hello"
              /\ UNCHANGED <<warnings, exc>>
         ELSE IF Caught(r.raised)
         THEN /\ warnings' = Append(warnings, CONFIG_PATH)
              /\ CONFIG' = EmptyDict
              /\ pc' = "hello"
              /\ UNCHANGED exc
         ELSE /\ exc' = r.raised
              /\ pc' = "exit"
              /\ UNCHANGED <<CONFIG, warnings>>
    /\ UNCHANGED <<inputVars, CONFIG_PATH, console, serverVars, trace,
                   exitStatus>>

(* ------------------------------------------------------------------ *)
(* hello.py                                                             *)
(* ------------------------------------------------------------------ *)
Raise(e, handler) ==
    /\ exc' = e
    /\ pc' = handler

HelloEntryNoReturn ==
    /\ pc = "hello"
    /\ console' = IF explain THEN Append(console, "explain") ELSE console
    /\ pc' = "check_audio"
    /\ UNCHANGED <<inputVars, configVars, exc, serverVars, trace, exitStatus>>

\* hello.py 82-86: explanation mode prints the outline and returns.
HelloEntry ==
    /\ pc = "hello"
    /\ IF explain
       THEN /\ console' = Append(console, "explain")
            /\ pc' = "exit"
       ELSE /\ console' = console
            /\ pc' = "check_audio"
    /\ UNCHANGED <<inputVars, configVars, exc, serverVars, trace, exitStatus>>

\* hello.py 92-94 and 110-112: CONFIG.get("audio") selects the branch.
CheckAudio ==
    /\ pc = "check_audio"
    /\ IF ~IsDict(CONFIG)
       THEN /\ Raise("AttributeError", "exit")
            /\ UNCHANGED console
       ELSE IF Truthy(DictGet(CONFIG, "audio"))
       THEN /\ console' = console \o <<"booting_with_config", "attempting">>
            /\ pc' = "options"
            /\ UNCHANGED exc
       ELSE /\ console' = Append(console, "no_audio_config")
            /\ pc' = "boot_default"
            /\ UNCHANGED exc
    /\ UNCHANGED <<inputVars, configVars, serverVars, trace, exitStatus>>

\* Fields of supriya.Options named by the documents of this model.
OptionFields == {"sample_rate", "output_device"}

\* supriya.Options(**audio): the ** needs a mapping, the dataclass
\* constructor rejects a keyword that is not one of its fields.
OptionsAccepts(audio) == IsDict(audio) /\ DOMAIN audio.items \subseteq OptionFields

\* hello.py 96, before the try of line 97.
BuildOptions ==
    /\ pc = "options"
    /\ LET audio == CONFIG.items["audio"] IN
         IF OptionsAccepts(audio)
         THEN /\ options' = audio
              /\ pc' = "boot_configured"
              /\ UNCHANGED exc
         ELSE /\ Raise("TypeError", "exit")
              /\ UNCHANGED options
    /\ UNCHANGED <<inputVars, configVars, console, server, simple_sine,
                   submitted, synced, group, synths, i, children, trace,
                   exitStatus>>

\* server.boot: options naming a device the host does not have cannot
\* boot; any other boot may still fail (scsynth missing, port taken).
BootOutcomes(opts) ==
    IF IsDict(opts) /\ "output_device" \in DOMAIN opts.items
    THEN {"ServerCannotBoot"}
    ELSE {"ok", "ServerCannotBoot"}

\* hello.py 97-108.
BootConfigured ==
    /\ pc = "boot_configured"
    /\ \E out \in BootOutcomes(options) :
         /\ trace' = trace \o <<Call("Server", "ok"), Call("boot", out)>>
         /\ IF out = "ok"
            THEN /\ server' = "online"
                 /\ pc' = "synthdef"
                 /\ UNCHANGED <<exc, console>>
            ELSE /\ server' = "offline"
                 /\ console' = console \o <<"check_config_path", "try_info_devices">>
                 /\ Raise("SystemExit", "exit")
    /\ UNCHANGED <<inputVars, configVars, options, simple_sine, submitted,
                   synced, group, synths, i, children, exitStatus>>

\* hello.py 113-114: no handler around the default boot.
BootDefault ==
    /\ pc = "boot_default"
    /\ \E out \in BootOutcomes(PyNone) :
         /\ trace' = trace \o <<Call("Server", "ok"), Call("boot", out)>>
         /\ IF out = "ok"
            THEN /\ server' = "online"
                 /\ pc' = "synthdef"
                 /\ UNCHANGED exc
            ELSE /\ server' = "offline"
                 /\ Raise("ServerCannotBoot", "exit")
    /\ UNCHANGED <<inputVars, configVars, console, options, simple_sine,
                   submitted, synced, group, synths, i, children, exitStatus>>

\* hello.py 117-121: the decorator builds the definition, after the boot
\* and before the try of line 123.
DefineSynthdef ==
    /\ pc = "synthdef"
    /\ \E ok \in BOOLEAN :
         IF ok
         THEN /\ simple_sine' = TRUE
              /\ pc' = "add_synthdefs"
              /\ UNCHANGED exc
         ELSE /\ Raise("RuntimeError", "exit")
              /\ UNCHANGED simple_sine
    /\ UNCHANGED <<inputVars, configVars, console, server, options, submitted,
                   synced, group, synths, i, children, trace, exitStatus>>

AddSynthdefsSwallow ==
    /\ pc = "add_synthdefs"
    /\ \E ok \in BOOLEAN :
         /\ trace' = Append(trace, Call("add_synthdefs", IF ok THEN "ok" ELSE "raise"))
         /\ submitted' = ok
         /\ pc' = "sync"
         /\ UNCHANGED exc
    /\ UNCHANGED <<inputVars, configVars, console, server, options,
                   simple_sine, synced, group, synths, i, children, exitStatus>>

\* hello.py 125.
AddSynthdefs ==
    /\ pc = "add_synthdefs"
    /\ \E ok \in BOOLEAN :
         /\ trace' = Append(trace, Call("add_synthdefs", IF ok THEN "ok" ELSE "raise"))
         /\ IF ok
            THEN /\ submitted' = TRUE
                 /\ pc' = "sync"
                 /\ UNCHANGED exc
            ELSE /\ Raise("RuntimeError", "finally")
                 /\ UNCHANGED submitted
    /\ UNCHANGED <<inputVars, configVars, console, server, options,
                   simple_sine, synced, group, synths, i, children, exitStatus>>

\* hello.py 128.
Sync ==
    /\ pc = "sync"
    /\ \E ok \in BOOLEAN :
         /\ trace' = Append(trace, Call("sync", IF ok THEN "ok" ELSE "raise"))
         /\ IF ok
            THEN /\ synced' = TRUE
                 /\ pc' = "add_group"
                 /\ UNCHANGED exc
            ELSE /\ Raise("RuntimeError", "finally")
                 /\ UNCHANGED synced
    /\ UNCHANGED <<inputVars, configVars, console, server, options,
                   simple_sine, submitted, group, synths, i, children,
                   exitStatus>>

\* hello.py 131 and the entry of the loop of line 134.
AddGroup ==
    /\ pc = "add_group"
    /\ \E ok \in BOOLEAN :
         /\ trace' = Append(trace, Call("add_group", IF ok THEN "ok" ELSE "raise"))
         /\ IF ok
            THEN /\ group' = TRUE
                 /\ i' = 0
                 /\ pc' = "add_synth"
                 /\ UNCHANGED exc
            ELSE /\ Raise("RuntimeError", "finally")
                 /\ UNCHANGED <<group, i>>
    /\ UNCHANGED <<inputVars, configVars, console, server, options,
                   simple_sine, submitted, synced, synths, children,
                   exitStatus>>

FreqLinear(n) == BaseFreq * (n + 1)

\* hello.py 135.
Freq(n) == BaseFreq * (2 ^ n)

\* hello.py 135-136.
AddSynth ==
    /\ pc = "add_synth"
    /\ i < NumNotes
    /\ \E ok \in BOOLEAN :
         LET node == Len(synths) + 1 IN
         /\ trace' = Append(trace, Ev("add_synth", IF ok THEN "ok" ELSE "raise",
                                      node, Freq(i), AmplitudeMilli, 0))
         /\ IF ok
            THEN /\ synths' = Append(synths, [freq |-> Freq(i),
                                              amp |-> AmplitudeMilli,
                                              freed |-> FALSE])
                 /\ pc' = "sleep_after_add"
                 /\ UNCHANGED exc
            ELSE /\ Raise("RuntimeError", "finally")
                 /\ UNCHANGED synths
    /\ UNCHANGED <<inputVars, configVars, console, server, options,
                   simple_sine, submitted, synced, group, i, children,
                   exitStatus>>

\* hello.py 137 and the next turn of the loop of line 134.
SleepAfterAdd ==
    /\ pc = "sleep_after_add"
    /\ trace' = Append(trace, Sleep(SleepSeconds))
    /\ i' = i + 1
    /\ pc' = IF i + 1 < NumNotes THEN "add_synth" ELSE "children"
    /\ UNCHANGED <<inputVars, configVars, exc, console, server, options,
                   simple_sine, submitted, synced, group, synths, children,
                   exitStatus>>

Live(s) == {n \in 1..Len(s) : ~s[n].freed}

Orders(S, len) ==
    {o \in [1..len -> S] : \A a, b \in 1..len : a # b => o[a] # o[b]}

ChildrenOrdersSkipping(s) ==
    Orders(Live(s), IF Live(s) = {} THEN 0 ELSE Cardinality(Live(s)) - 1)

\* group.children: the synths the group owns, in the order the group
\* enumerates them.
ChildrenOrders(s) == Orders(Live(s), Cardinality(Live(s)))

\* hello.py 140: the iterable of the free loop is evaluated once.
EnumerateChildren ==
    /\ pc = "children"
    /\ \E order \in ChildrenOrders(synths) :
         /\ children' = order
         /\ pc' = IF Len(order) = 0 THEN "finally" ELSE "free"
    /\ UNCHANGED <<inputVars, configVars, exc, console, server, options,
                   simple_sine, submitted, synced, group, synths, i, trace,
                   exitStatus>>

\* hello.py 141.
FreeSynth ==
    /\ pc = "free"
    /\ \E ok \in BOOLEAN :
         LET node == Head(children) IN
         /\ trace' = Append(trace, Ev("free", IF ok THEN "ok" ELSE "raise",
                                      node, synths[node].freq, 0, 0))
         /\ IF ok
            THEN /\ synths' = [synths EXCEPT ![node].freed = TRUE]
                 /\ pc' = "sleep_after_free"
                 /\ UNCHANGED exc
            ELSE /\ Raise("RuntimeError", "finally")
                 /\ UNCHANGED synths
    /\ UNCHANGED <<inputVars, configVars, console, server, options,
                   simple_sine, submitted, synced, group, i, children,
                   exitStatus>>

\* hello.py 142 and the next turn of the loop of line 140.
SleepAfterFree ==
    /\ pc = "sleep_after_free"
    /\ trace' = Append(trace, Sleep(SleepSeconds))
    /\ children' = Tail(children)
    /\ pc' = IF Tail(children) = <<>> THEN "finally" ELSE "free"
    /\ UNCHANGED <<inputVars, configVars, exc, console, server, options,
                   simple_sine, submitted, synced, group, synths, i,
                   exitStatus>>

\* hello.py 143-145: the finally clause, entered with or without an
\* exception in flight; an exception of quit replaces the one in flight.
Quit ==
    /\ pc = "finally"
    /\ \E ok \in BOOLEAN :
         /\ trace' = Append(trace, Call("quit", IF ok THEN "ok" ELSE "raise"))
         /\ server' = IF ok THEN "quit" ELSE server
         /\ exc' = IF ok THEN exc ELSE "RuntimeError"
    /\ pc' = "exit"
    /\ UNCHANGED <<inputVars, configVars, console, options, simple_sine,
                   submitted, synced, group, synths, i, children, exitStatus>>

\* The interpreter ends: status 0 after a normal return, 1 after
\* sys.exit(1) or an exception nobody caught.
Exit ==
    /\ pc = "exit"
    /\ exitStatus' = IF exc = "none" THEN 0 ELSE 1
    /\ pc' = "exited"
    /\ UNCHANGED <<inputVars, configVars, exc, console, serverVars, trace>>

Next ==
    \/ ResolveConfigPath
    \/ LoadConfig
    \/ HelloEntry
    \/ CheckAudio
    \/ BuildOptions
    \/ BootConfigured
    \/ BootDefault
    \/ DefineSynthdef
    \/ AddSynthdefs
    \/ Sync
    \/ AddGroup
    \/ AddSynth
    \/ SleepAfterAdd
    \/ EnumerateChildren
    \/ FreeSynth
    \/ SleepAfterFree
    \/ Quit
    \/ Exit

Spec == Init /\ [][Next]_vars

(* ------------------------------------------------------------------ *)
(* Observations on the trace                                            *)
(* ------------------------------------------------------------------ *)
Ops(op) == {k \in 1..Len(trace) : trace[k].op = op}
OkOps(op) == {k \in Ops(op) : trace[k].result = "ok"}
Booted == OkOps("boot") # {}
Imported == pc \notin {"resolve_path", "load_config"}
Finished == pc = "exited"
Execution == ~explain
Successful == Finished /\ Execution /\ exitStatus = 0
IsAddSynth(e) == e.op = "add_synth"
Created == SelectSeq(trace, IsAddSynth)
LoadErrors == {"FileNotFoundError", "IsADirectoryError", "YAMLError"}
SessionOps == {"add_synthdefs", "sync", "add_group", "add_synth", "free", "quit"}

(* ------------------------------------------------------------------ *)
(* Properties                                                           *)
(* ------------------------------------------------------------------ *)

\* C1: in every finished execution-mode run in which the server booted,
\* server.quit was called exactly once and it is the last library call.
C1_QuitExactlyOnce ==
    (Finished /\ Execution /\ Booted) =>
        /\ Cardinality(Ops("quit")) = 1
        /\ \A k \in Ops("quit") : k = Len(trace)

\* C2: no run ends with a server that was booted and never quit, whichever
\* of the steps 1-6 raised.
C2_NoBootedServerLeftBehind ==
    (Finished /\ Booted) => Ops("quit") # {}

\* The configuration has an audio section with options, and the options
\* cannot give a running server: the constructor rejects them or no boot
\* with them succeeds.
AudioCannotBoot ==
    /\ IsDict(CONFIG)
    /\ IsDict(DictGet(CONFIG, "audio"))
    /\ Truthy(DictGet(CONFIG, "audio"))
    /\ \/ ~OptionsAccepts(DictGet(CONFIG, "audio"))
       \/ "ok" \notin BootOutcomes(DictGet(CONFIG, "audio"))

\* C3: with an audio section whose options cannot boot, a finished
\* execution-mode run has printed both diagnostic lines, exits with
\* status 1, made none of the calls of steps 2-7 and left no server online.
C3_BootFailureDiagnosed ==
    (Finished /\ Execution /\ AudioCannotBoot) =>
        /\ \E a, b \in 1..Len(console) :
             /\ a < b
             /\ console[a] = "check_config_path"
             /\ console[b] = "try_info_devices"
        /\ exitStatus = 1
        /\ \A k \in 1..Len(trace) : trace[k].op \notin SessionOps
        /\ ~simple_sine
        /\ server # "online"

\* C4: with explain set, no server is constructed or booted, no library
\* call is made, no exception is raised, control never enters the session
\* protocol and the exit status is 0, whatever the configuration file is.
C4_ExplainNeverBoots ==
    explain =>
        /\ trace = <<>>
        /\ server = "unbound"
        /\ exc = "none"
        /\ pc \in {"resolve_path", "load_config", "hello", "exit", "exited"}
        /\ (Finished => exitStatus = 0 /\ console = <<"explain">>)

C4_Witness ==
    /\ explain
    /\ Finished
    /\ exitStatus = 0
    /\ fs[CONFIG_PATH] = DocAudioNoDevice

\* C5: the synths created so far always have the frequencies 220, 440, 880
\* in that order and amplitude 0.1, each creation that returned is followed
\* by a pause of one second before the next library call, and a successful
\* run has created exactly three of them in the one group.
C5_ThreeOctaves ==
    /\ Len(Created) <= 3
    /\ \A n \in 1..Len(Created) :
         /\ Created[n].freq = <<220, 440, 880>>[n]
         /\ Created[n].amp = 100
         /\ n > 1 => Created[n].freq = 2 * Created[n - 1].freq
    /\ \A k \in OkOps("add_synth") :
         /\ trace[k].node = Cardinality({j \in Ops("add_synth") : j <= k})
         /\ k < Len(trace) => trace[k + 1] = Sleep(1)
         /\ k = Len(trace) => pc = "sleep_after_add"
    /\ Successful =>
         /\ Len(Created) = 3
         /\ Len(synths) = 3
         /\ Cardinality(OkOps("add_synth")) = 3
         /\ Cardinality(Ops("add_group")) = 1
         /\ \A k \in Ops("add_synth") : \E g \in OkOps("add_group") : g < k

C5_Witness ==
    /\ Successful
    /\ Len(Created) = 3
    /\ Created[3].freq = 880

\* C6: once the loader has run on a path that cannot be opened or parsed,
\* CONFIG is the empty mapping, one warning naming the path was logged and
\* no exception of the load reached the importer.
C6_LoadFailureYieldsEmpty ==
    (Imported /\ open_and_load(fs[CONFIG_PATH]).raised # "none") =>
        /\ CONFIG = EmptyDict
        /\ warnings = <<CONFIG_PATH>>
        /\ exc \notin LoadErrors

C6_Witness ==
    /\ pc = "check_audio"
    /\ fs[CONFIG_PATH] = DocGarbage
    /\ CONFIG = EmptyDict
    /\ warnings = <<CONFIG_PATH>>

\* C7: the resolved path is the value of SUPRIYA_CONFIG_PATH when that is
\* set, non-empty and names an existing file, and the default path in every
\* other case; CONFIG is what the loader makes of the file at that path.
NamesExistingFile(env) == env \in DOMAIN fs /\ fs[env] \in Docs
C7_ExpectedPath ==
    IF SUPRIYA_CONFIG_PATH # EnvNone /\ NamesExistingFile(SUPRIYA_CONFIG_PATH)
    THEN SUPRIYA_CONFIG_PATH
    ELSE DefaultPath
C7_PathResolution ==
    /\ pc # "resolve_path" => CONFIG_PATH = C7_ExpectedPath
    /\ Imported =>
         CONFIG = IF open_and_load(fs[C7_ExpectedPath]).raised = "none"
                  THEN open_and_load(fs[C7_ExpectedPath]).value
                  ELSE EmptyDict

\* C8: every call on the server follows a boot that returned; the group and
\* every synth are requested only after add_synthdefs and then sync have
\* both returned; after a raise of add_synthdefs or sync neither is requested.
C8_ProtocolOrder ==
    /\ \A k \in 1..Len(trace) :
         trace[k].op \in SessionOps => \E b \in OkOps("boot") : b < k
    /\ \A k \in Ops("add_group") \cup Ops("add_synth") :
         \E a \in OkOps("add_synthdefs") : \E b \in OkOps("sync") :
             a < b /\ b < k
    /\ \A k \in Ops("add_synth") : \E g \in OkOps("add_group") : g < k
    /\ \A k \in Ops("add_synthdefs") \cup Ops("sync") :
         trace[k].result = "raise" =>
             \A j \in (k + 1)..Len(trace) : trace[j].op = "quit"
    /\ group => submitted /\ synced /\ simple_sine
    /\ synths # <<>> => group

C8_Witness ==
    /\ Ops("add_synth") # {}
    /\ group
    /\ Len(synths) = 3

\* C9: in a successful run every synth of the group has been freed exactly
\* once, each free is followed by a pause of one second, every free comes
\* after the last creation and before quit, and at quit no synth is left.
C9_AllFreedBeforeQuit ==
    Successful =>
        /\ \A n \in 1..Len(synths) :
             /\ synths[n].freed
             /\ Cardinality({k \in Ops("free") : trace[k].node = n}) = 1
        /\ Cardinality(Ops("free")) = Len(synths)
        /\ \A k \in Ops("free") :
             /\ trace[k].result = "ok"
             /\ trace[k + 1] = Sleep(1)
             /\ \A a \in Ops("add_synth") : a < k
             /\ \A q \in Ops("quit") : k < q

C9_Witness ==
    /\ Successful
    /\ Len(synths) = 3
    /\ \E k \in Ops("free") :
         /\ trace[k].node = 3
         /\ \A j \in Ops("free") : k <= j

\* C10: once the loader has run CONFIG is a mapping, and the lookup of the
\* audio key in hello raises nothing.
C10_ConfigIsMapping ==
    Imported => IsDict(CONFIG) /\ exc # "AttributeError"

====
